---- MODULE Spec2Model ----
(***************************************************************************)
(* Model of assets/Alien/smooth_edges.py: a chroma-key (magenta) cut-out   *)
(* pipeline  load -> make_mask -> smooth_alpha -> putalpha -> composite    *)
(* -> save.  Images are records [mode, w, h, px] with px a function from   *)
(* <<x, y>> (0-based) to a pixel: a tuple of channels for "RGB"/"RGBA",    *)
(* an integer for "L".                                                     *)
(***************************************************************************)
EXTENDS Integers, Sequences, FiniteSets, TLC

VARIABLES
    argv,          \* the command line given to the process
    inFile,        \* the file at the input path
    outFile0,      \* the file at the output path when the process starts
    outFile,       \* the file at the output path now
    pc,            \* position of main()
    args,          \* result of parse_args()
    img, mask, img_no_alpha,      \* locals of main()
    s_img, s_mask,                \* locals img, mask of smooth_alpha()
    img_smooth, mask_smooth, out, \* locals of main()
    resizeCalls, blurCalls,       \* number of Image.resize / Image.filter calls made
    stdout,        \* lines printed
    raised,        \* the exception that ended the process, "" if none
    exitStatus     \* process exit status, -1 while running

vars == <<argv, inFile, outFile0, outFile, pc, args, img, mask, img_no_alpha,
          s_img, s_mask, img_smooth, mask_smooth, out, resizeCalls, blurCalls,
          stdout, raised, exitStatus>>

(***************************** bounds **************************************)
MaxW == 2
MaxH == 1
MaxUpscale == 2

(***************************** helpers *************************************)
MinOf(S) == CHOOSE v \in S : \A u \in S : v <= u
MaxOf(S) == CHOOSE v \in S : \A u \in S : v >= u

Coords(w, h) == (0 .. w - 1) \X (0 .. h - 1)

NoImage == [mode |-> "none", w |-> 0, h |-> 0, px |-> [p \in {} |-> 0]]

\* an image whose left half has pixel c1 and whose right half has pixel c2
HalfImage(mode, w, h, c1, c2) ==
    [mode |-> mode, w |-> w, h |-> h,
     px |-> [p \in Coords(w, h) |-> IF 2 * p[1] < w THEN c1 ELSE c2]]

Values(im) == {im.px[p] : p \in DOMAIN im.px}

(***************************** the program *********************************)
MAGENTA == <<255, 0, 255>>

is_background_pixel_lt(px, tolerance) ==
    LET dr == px[1] - MAGENTA[1]
        dg == px[2] - MAGENTA[2]
        db == px[3] - MAGENTA[3]
    IN  (dr * dr + dg * dg + db * db) < (tolerance * tolerance)

is_background_pixel_raw(px, tolerance) ==
    LET dr == px[1] - MAGENTA[1]
        dg == px[2] - MAGENTA[2]
        db == px[3] - MAGENTA[3]
    IN  (dr * dr + dg * dg + db * db) <= tolerance

is_background_pixel(px, tolerance) ==
    LET dr == px[1] - MAGENTA[1]
        dg == px[2] - MAGENTA[2]
        db == px[3] - MAGENTA[3]
    IN  (dr * dr + dg * dg + db * db) <= (tolerance * tolerance)

make_mask(im, tolerance) ==
    [mode |-> "L", w |-> im.w, h |-> im.h,
     px |-> [p \in Coords(im.w, im.h) |->
                IF is_background_pixel(im.px[p], tolerance) THEN 0 ELSE 255]]

ConvertRGBA_clear(f) ==
    [mode |-> "RGBA", w |-> f.w, h |-> f.h,
     px |-> [p \in DOMAIN f.px |->
                IF f.mode = "RGB" THEN Append(f.px[p], 0) ELSE f.px[p]]]

\* Image.convert("RGBA"): a source without an opacity channel gets 255,
\* a source that has one keeps it
ConvertRGBA(f) ==
    [mode |-> "RGBA", w |-> f.w, h |-> f.h,
     px |-> [p \in DOMAIN f.px |->
                IF f.mode = "RGB" THEN Append(f.px[p], 255) ELSE f.px[p]]]

\* Image.convert("RGB") of an RGBA image drops the opacity channel
ConvertRGB(im) ==
    [mode |-> "RGB", w |-> im.w, h |-> im.h,
     px |-> [p \in DOMAIN im.px |-> SubSeq(im.px[p], 1, 3)]]


\* the value a resampling or blur kernel produces across an edge: between the
\* extremes of the channel
Mix(im) ==
    LET S == Values(im)
    IN  IF im.mode = "L"
        THEN (MinOf(S) + MaxOf(S)) \div 2
        ELSE LET m(i) == (MinOf({c[i] : c \in S}) + MaxOf({c[i] : c \in S})) \div 2
             IN  <<m(1), m(2), m(3)>>

\* the pixels at the left and the right border of an image
Left(im) == im.px[<<0, 0>>]

Right(im) == im.px[<<im.w - 1, 0>>]

\* what a Lanczos resize or a Gaussian blur of im can look like at the given
\* size: each side keeps its value or takes the mixed value of the edge; a
\* uniform image stays as it is
Resampled(im, size) ==
    {HalfImage(im.mode, size[1], size[2], l, r) :
        l \in {Left(im), Mix(im)}, r \in {Right(im), Mix(im)}}

\* Image.resize(size, resample=LANCZOS): an image of the requested size and
\* the same mode; the pixel values are the library's
Resize(im, size) == Resampled(im, size)

\* Image.filter(GaussianBlur(radius)): radius 0 copies the image, a positive
\* radius mixes neighbouring values; the size never changes
GaussianBlur(m, radius) ==
    IF radius = 0 THEN {m}
    ELSE Resampled(m, <<m.w, m.h>>)

\* the test "upscale > 1" of lines 41 and 48
ShouldResize_ge(upscale) == upscale >= 1

ShouldResize(upscale) == upscale > 1

new_size_bug(im, upscale) == <<im.w, im.h * upscale>>

new_size(im, upscale) == <<im.w * upscale, im.h * upscale>>

img_down_size(im, upscale) == <<im.w \div upscale, im.h \div upscale>>

mask_down_size_bug(m, upscale) == <<m.w \div upscale, m.h>>

mask_down_size(m, upscale) == <<m.w \div upscale, m.h \div upscale>>

putalpha_opaque(im, m) ==
    [mode |-> "RGBA", w |-> im.w, h |-> im.h,
     px |-> [p \in DOMAIN im.px |-> Append(SubSeq(im.px[p], 1, 3), 255)]]

\* Image.putalpha(mask) on an RGB image: the image becomes RGBA and its
\* opacity band is the mask
putalpha(im, m) ==
    [mode |-> "RGBA", w |-> im.w, h |-> im.h,
     px |-> [p \in DOMAIN im.px |-> Append(SubSeq(im.px[p], 1, 3), m.px[p])]]

\* ImageColor.getrgb as used by Image.new("RGBA", size, color), on the
\* strings the model passes for --bg; <<>> stands for ValueError
getrgb(color) ==
    CASE color = "#ffffff"   -> <<255, 255, 255, 255>>
      [] color = "#00000080" -> <<0, 0, 0, 128>>
      [] OTHER               -> <<>>

ImageNew(mode, size, color) == HalfImage(mode, size[1], size[2], color, color)

\* the library's division by 255: ((a + (a >> 8)) >> 8)
ShiftForDiv255(a) == (a + (a \div 256)) \div 256

\* Image.alpha_composite(dst, src), one pixel (7 bits of precision)
CompositePixel(dst, src) ==
    IF src[4] = 0 THEN dst
    ELSE LET blend   == dst[4] * (255 - src[4])
             outa255 == src[4] * 255 + blend
             coef1   == (src[4] * 255 * 255 * 128) \div outa255
             coef2   == 255 * 128 - coef1
             ch(i)   == ShiftForDiv255(src[i] * coef1 + dst[i] * coef2 + 128 * 128) \div 128
         IN  <<ch(1), ch(2), ch(3), ShiftForDiv255(outa255 + 128)>>

alpha_composite_swapped(dst, src) ==
    [mode |-> "RGBA", w |-> dst.w, h |-> dst.h,
     px |-> [p \in DOMAIN dst.px |-> CompositePixel(src.px[p], dst.px[p])]]

alpha_composite(dst, src) ==
    [mode |-> "RGBA", w |-> dst.w, h |-> dst.h,
     px |-> [p \in DOMAIN dst.px |-> CompositePixel(dst.px[p], src.px[p])]]

ExitCode_swallow(exc) == 0

\* exit status of the interpreter: 0 on normal return, 2 from argparse's
\* error(), 1 for an exception that main() lets escape
ExitCode(exc) ==
    CASE exc = ""           -> 0
      [] exc = "SystemExit" -> 2
      [] OTHER              -> 1

(***************************** inputs **************************************)
Magenta     == <<255, 0, 255>>
NearMagenta == <<249, 8, 255>>    \* squared distance 100 from magenta
Red         == <<255, 0, 0>>
Green       == <<0, 255, 0>>      \* squared distance 195075, the largest

\* <<mode, left pixel, right pixel>> of the images on the input path
SrcPatterns ==
    { <<"RGB", Magenta, Red>>, <<"RGB", NearMagenta, Green>>,
      <<"RGB", Magenta, Magenta>>,
      <<"RGBA", <<255, 0, 255, 0>>, <<255, 0, 0, 128>>>> }

InputFiles ==
    { [kind |-> k, image |-> NoImage] : k \in {"missing", "unreadable", "garbage"} }
    \cup
    { [kind |-> "image", image |-> HalfImage(s[1], w, h, s[2], s[3])] :
        s \in SrcPatterns, w \in 1 .. MaxW, h \in 1 .. MaxH }

Tolerances == {0, 10, 442, 500}
BlurRadii  == {0, 2}
BgOptions  == {"None", "", "#ffffff", "#00000080", "bad"}   \* "None": --bg absent

Argvs ==
    { [ok |-> TRUE, tolerance |-> t, upscale |-> u, blur |-> b, bg |-> g] :
        t \in Tolerances, u \in 1 .. MaxUpscale, b \in BlurRadii, g \in BgOptions }
    \cup
    { [ok |-> FALSE, tolerance |-> 80, upscale |-> 2, blur |-> 2, bg |-> "None"] }

NoArgs == [tolerance |-> 0, upscale |-> 0, blur |-> 0, bg |-> "None"]

(***************************** behaviour ***********************************)
Init ==
    /\ argv \in Argvs
    /\ inFile \in InputFiles
    /\ outFile0 \in {"absent", "old"}
    /\ outFile = [kind |-> outFile0, image |-> NoImage]
    /\ pc = "parse_args"
    /\ args = NoArgs
    /\ img = NoImage /\ mask = NoImage /\ img_no_alpha = NoImage
    /\ s_img = NoImage /\ s_mask = NoImage
    /\ img_smooth = NoImage /\ mask_smooth = NoImage /\ out = NoImage
    /\ resizeCalls = 0 /\ blurCalls = 0
    /\ stdout = <<>>
    /\ raised = ""
    /\ exitStatus = -1

\* an exception leaves main(): the process ends
Raise(exc) ==
    /\ pc' = "failed"
    /\ raised' = exc
    /\ exitStatus' = ExitCode(exc)

\* lines 54-61
ParseArgs ==
    /\ pc = "parse_args"
    /\ IF argv.ok
       THEN /\ args' = [tolerance |-> argv.tolerance, upscale |-> argv.upscale,
                        blur |-> argv.blur, bg |-> argv.bg]
            /\ pc' = "load"
            /\ UNCHANGED <<raised, exitStatus>>
       ELSE /\ Raise("SystemExit")
            /\ UNCHANGED args
    /\ UNCHANGED <<argv, inFile, outFile0, outFile, img, mask, img_no_alpha, s_img,
                   s_mask, img_smooth, mask_smooth, out, resizeCalls, blurCalls, stdout>>

\* line 63
Load ==
    /\ pc = "load"
    /\ IF inFile.kind = "image"
       THEN /\ img' = ConvertRGBA(inFile.image)
            /\ pc' = "make_mask"
            /\ UNCHANGED <<raised, exitStatus>>
       ELSE /\ Raise(CASE inFile.kind = "missing"    -> "FileNotFoundError"
                       [] inFile.kind = "unreadable" -> "PermissionError"
                       [] OTHER                      -> "UnidentifiedImageError")
            /\ UNCHANGED img
    /\ UNCHANGED <<argv, inFile, outFile0, outFile, args, mask, img_no_alpha, s_img,
                   s_mask, img_smooth, mask_smooth, out, resizeCalls, blurCalls, stdout>>

\* line 64
MakeMask ==
    /\ pc = "make_mask"
    /\ mask' = make_mask(img, args.tolerance)
    /\ pc' = "convert"
    /\ UNCHANGED <<argv, inFile, outFile0, outFile, args, img, img_no_alpha, s_img,
                   s_mask, img_smooth, mask_smooth, out, resizeCalls, blurCalls,
                   stdout, raised, exitStatus>>

\* line 65, and the call of smooth_alpha on line 66
Convert ==
    /\ pc = "convert"
    /\ img_no_alpha' = ConvertRGB(img)
    /\ s_img' = img_no_alpha'
    /\ s_mask' = mask
    /\ pc' = "upscale"
    /\ UNCHANGED <<argv, inFile, outFile0, outFile, args, img, mask,
                   img_smooth, mask_smooth, out, resizeCalls, blurCalls,
                   stdout, raised, exitStatus>>

\* lines 41-44
Upscale ==
    /\ pc = "upscale"
    /\ IF ShouldResize(args.upscale)
       THEN /\ s_img' \in Resize(s_img, new_size(s_img, args.upscale))
            /\ s_mask' \in Resize(s_mask, new_size(s_img, args.upscale))
            /\ resizeCalls' = resizeCalls + 2
       ELSE UNCHANGED <<s_img, s_mask, resizeCalls>>
    /\ pc' = "blur"
    /\ UNCHANGED <<argv, inFile, outFile0, outFile, args, img, mask, img_no_alpha,
                   img_smooth, mask_smooth, out, blurCalls, stdout, raised, exitStatus>>

\* line 46
Blur ==
    /\ pc = "blur"
    /\ s_mask' \in GaussianBlur(s_mask, args.blur)
    /\ blurCalls' = blurCalls + 1
    /\ pc' = "downscale"
    /\ UNCHANGED <<argv, inFile, outFile0, outFile, args, img, mask, img_no_alpha,
                   s_img, img_smooth, mask_smooth, out, resizeCalls, stdout,
                   raised, exitStatus>>

\* lines 48-51, and the assignment of the result on line 66
Downscale ==
    /\ pc = "downscale"
    /\ IF ShouldResize(args.upscale)
       THEN /\ s_img' \in Resize(s_img, img_down_size(s_img, args.upscale))
            /\ s_mask' \in Resize(s_mask, mask_down_size(s_mask, args.upscale))
            /\ resizeCalls' = resizeCalls + 2
       ELSE UNCHANGED <<s_img, s_mask, resizeCalls>>
    /\ img_smooth' = s_img'
    /\ mask_smooth' = s_mask'
    /\ pc' = "putalpha"
    /\ UNCHANGED <<argv, inFile, outFile0, outFile, args, img, mask, img_no_alpha,
                   out, blurCalls, stdout, raised, exitStatus>>

\* lines 68-69; with upscale <= 1 smooth_alpha returned img_no_alpha itself,
\* so putalpha changes that object too
PutAlpha ==
    /\ pc = "putalpha"
    /\ IF <<mask_smooth.w, mask_smooth.h>> = <<img_smooth.w, img_smooth.h>>
       THEN /\ img_smooth' = putalpha(img_smooth, mask_smooth)
            /\ img_no_alpha' = IF args.upscale > 1 THEN img_no_alpha ELSE img_smooth'
            /\ pc' = "composite"
            /\ UNCHANGED <<raised, exitStatus>>
       ELSE /\ Raise("ValueError")
            /\ UNCHANGED <<img_smooth, img_no_alpha>>
    /\ UNCHANGED <<argv, inFile, outFile0, outFile, args, img, mask, s_img, s_mask,
                   mask_smooth, out, resizeCalls, blurCalls, stdout>>

\* the truth value of args.bg: None and the empty string are false
Truthy(bg) == bg # "None" /\ bg # ""

\* lines 71-76
Composite ==
    /\ pc = "composite"
    /\ IF Truthy(args.bg)
       THEN IF getrgb(args.bg) = <<>>
            THEN /\ Raise("ValueError")
                 /\ UNCHANGED out
            ELSE /\ out' = alpha_composite(
                              ImageNew("RGBA", <<img_smooth.w, img_smooth.h>>, getrgb(args.bg)),
                              img_smooth)
                 /\ pc' = "save"
                 /\ UNCHANGED <<raised, exitStatus>>
       ELSE /\ out' = img_smooth
            /\ pc' = "save"
            /\ UNCHANGED <<raised, exitStatus>>
    /\ UNCHANGED <<argv, inFile, outFile0, outFile, args, img, mask, img_no_alpha,
                   s_img, s_mask, img_smooth, mask_smooth, resizeCalls, blurCalls, stdout>>

\* what Image.save(path, "PNG") leaves at the path: it opens the path for
\* writing (truncating what is there) and encodes into it.  "ok": the whole
\* image is written; "unwritable": the open fails and nothing is touched;
\* "midwrite": the write fails after the open, and the library removes the
\* file only if this call created it (older releases never remove it)
SaveResults(f, im, outcome) ==
    CASE outcome = "ok"         -> {[kind |-> "complete", image |-> im]}
      [] outcome = "unwritable" -> {f}
      [] OTHER                  ->
            IF f.kind = "absent"
            THEN {[kind |-> "partial", image |-> NoImage], f}
            ELSE {[kind |-> "partial", image |-> NoImage]}

\* line 78
Save ==
    /\ pc = "save"
    /\ \E outcome \in {"ok", "unwritable", "midwrite"} :
          /\ outFile' \in SaveResults(outFile, out, outcome)
          /\ IF outcome = "ok"
             THEN pc' = "print" /\ UNCHANGED <<raised, exitStatus>>
             ELSE Raise(IF outcome = "unwritable" THEN "PermissionError" ELSE "OSError")
    /\ UNCHANGED <<argv, inFile, outFile0, args, img, mask, img_no_alpha, s_img, s_mask,
                   img_smooth, mask_smooth, out, resizeCalls, blurCalls, stdout>>

\* line 79, and the normal return of main()
PrintSaved ==
    /\ pc = "print"
    /\ stdout' = Append(stdout, <<"Saved", "output.png">>)
    /\ pc' = "done"
    /\ exitStatus' = ExitCode("")
    /\ UNCHANGED <<argv, inFile, outFile0, outFile, args, img, mask, img_no_alpha,
                   s_img, s_mask, img_smooth, mask_smooth, out, resizeCalls,
                   blurCalls, raised>>

Next ==
    \/ ParseArgs
    \/ Load
    \/ MakeMask
    \/ Convert
    \/ Upscale
    \/ Blur
    \/ Downscale
    \/ PutAlpha
    \/ Composite
    \/ Save
    \/ PrintSaved

Spec == Init /\ [][Next]_vars

(***************************** properties **********************************)
Size(im) == <<im.w, im.h>>

\* squared RGB distance of a pixel to (255, 0, 255)
Dist2(px) == (px[1] - 255) * (px[1] - 255) + px[2] * px[2] + (px[3] - 255) * (px[3] - 255)

AbsDiff(a, b) == IF a >= b THEN a - b ELSE b - a

\* C1: once make_mask has run, the mask pixel at every coordinate of the image
\* is 0 exactly when the pixel's squared distance to magenta is at most
\* tolerance^2 and 255 otherwise; a magenta pixel gives 0; no other value occurs
C1_MaskClassification ==
    mask.mode = "L" =>
        /\ DOMAIN mask.px = Coords(img.w, img.h)
        /\ \A p \in Coords(img.w, img.h) :
              /\ mask.px[p] = 0 <=> Dist2(img.px[p]) <= args.tolerance * args.tolerance
              /\ mask.px[p] = 255 <=> Dist2(img.px[p]) > args.tolerance * args.tolerance
              /\ SubSeq(img.px[p], 1, 3) = <<255, 0, 255>> => mask.px[p] = 0
              /\ mask.px[p] \in {0, 255}

C1_Witness ==
    /\ mask.mode = "L"
    /\ \E p \in DOMAIN mask.px :
          Dist2(img.px[p]) = args.tolerance * args.tolerance /\ mask.px[p] = 0
    /\ \E q \in DOMAIN mask.px : mask.px[q] = 255

\* smooth_alpha has returned to main()
Smoothed == mask_smooth.mode = "L"

\* C2 as stated: with upscale = 1 and blur = 0 smooth_alpha makes no resize
\* call and no blur call, and returns the sizes and the mask values it was given
C2_PassThroughNoCalls ==
    (Smoothed /\ args.upscale = 1 /\ args.blur = 0) =>
        /\ resizeCalls = 0
        /\ blurCalls = 0
        /\ Size(img_smooth) = Size(img_no_alpha)
        /\ mask_smooth = mask

\* C2 amended: with upscale = 1 and blur = 0 smooth_alpha makes no resize call
\* and exactly one blur call, of radius 0, and returns the sizes and the mask
\* values it was given
C2_PassThrough ==
    (Smoothed /\ args.upscale = 1 /\ args.blur = 0) =>
        /\ resizeCalls = 0
        /\ blurCalls = 1
        /\ Size(img_smooth) = Size(img) /\ Size(img_smooth) = Size(img_no_alpha)
        /\ Size(mask_smooth) = Size(mask)
        /\ \A p \in DOMAIN mask.px : mask_smooth.px[p] = mask.px[p]

C2_Witness ==
    /\ pc = "putalpha" /\ args.upscale = 1 /\ args.blur = 0
    /\ \E p, q \in DOMAIN mask_smooth.px : mask_smooth.px[p] = 0 /\ mask_smooth.px[q] = 255

\* C3: when the input cannot be loaded the process ends with a non-zero
\* status, the file at the output path is what it was at the start and nothing
\* is printed; the output path is only written once load, mask, smoothing and
\* compositing have completed, and "Saved" is only printed after the save
C3_DecodeFailureWritesNothing ==
    /\ (argv.ok /\ inFile.kind # "image" /\ pc \notin {"parse_args", "load"}) =>
          /\ pc = "failed"
          /\ exitStatus > 0
          /\ outFile = [kind |-> outFile0, image |-> NoImage]
          /\ stdout = <<>>
    /\ outFile # [kind |-> outFile0, image |-> NoImage] =>
          /\ inFile.kind = "image" /\ img.mode = "RGBA"
          /\ mask.mode = "L" /\ Smoothed /\ out.mode = "RGBA"
    /\ stdout # <<>> => outFile = [kind |-> "complete", image |-> out]

C3_Witness ==
    /\ inFile.kind = "garbage" /\ raised = "UnidentifiedImageError"
    /\ outFile0 = "old" /\ pc = "failed"

\* C4: a finished run either succeeded, with the complete image at the output
\* path and "Saved" printed, or failed, with no file written at the output
\* path (none created, none partially written) and nothing printed
C4_AllOrNothing ==
    /\ pc = "done" =>
          /\ outFile = [kind |-> "complete", image |-> out]
          /\ Len(stdout) = 1
          /\ exitStatus = 0
    /\ pc = "failed" =>
          /\ outFile = [kind |-> outFile0, image |-> NoImage]
          /\ stdout = <<>>
          /\ exitStatus > 0

C6_RoundTripDimensions ==
    Smoothed =>
        /\ Size(img_smooth) = Size(inFile.image)
        /\ Size(mask_smooth) = Size(inFile.image)
        /\ DOMAIN img_smooth.px = Coords(inFile.image.w, inFile.image.h)
        /\ DOMAIN mask_smooth.px = Coords(inFile.image.w, inFile.image.h)

C6_Witness ==
    /\ pc = "putalpha" /\ args.upscale > 1 /\ resizeCalls = 4
    /\ inFile.image.w > 1

\* C7: without a background colour the saved image has, at every pixel, the
\* smoothed mask's value as opacity and the smoothed image's colour; an
\* all-zero mask gives an all-transparent output of the same size
C7_TransparentOutput ==
    (~Truthy(args.bg) /\ outFile.kind = "complete") =>
        /\ Size(outFile.image) = Size(mask_smooth)
        /\ DOMAIN outFile.image.px = DOMAIN mask_smooth.px
        /\ \A p \in DOMAIN mask_smooth.px :
              /\ outFile.image.px[p][4] = mask_smooth.px[p]
              /\ SubSeq(outFile.image.px[p], 1, 3) = s_img.px[p]
        /\ (\A p \in DOMAIN mask_smooth.px : mask_smooth.px[p] = 0) =>
              (\A p \in DOMAIN outFile.image.px : outFile.image.px[p][4] = 0)

C7_Witness ==
    /\ ~Truthy(args.bg) /\ outFile.kind = "complete"
    /\ \E p \in DOMAIN outFile.image.px : outFile.image.px[p][4] \notin {0, 255}

\* the composite of one pixel obeys out = src*a + bg*(1-a), a = m/255, to
\* within rounding, and is exact at m = 255 and m = 0
BlendOk(o, src, bgc, m) ==
    \A i \in 1 .. 3 :
        /\ 2 * AbsDiff(255 * o[i], src[i] * m + bgc[i] * (255 - m)) <= 255
        /\ m = 255 => o[i] = src[i]
        /\ m = 0 => o[i] = bgc[i]

\* C8 as stated: with any background colour given, every output pixel is
\* opaque and its colour is the blend of image and background by the mask
C8_CompositeAnyBackground ==
    (Truthy(args.bg) /\ out.mode = "RGBA") =>
        \A p \in DOMAIN out.px :
            /\ out.px[p][4] = 255
            /\ BlendOk(out.px[p], s_img.px[p], getrgb(args.bg), mask_smooth.px[p])

\* C8 amended: with a fully opaque background colour given, every output pixel
\* is opaque and its colour is the blend of image and background by the mask
C8_CompositeOpaqueBackground ==
    (Truthy(args.bg) /\ out.mode = "RGBA" /\ getrgb(args.bg)[4] = 255) =>
        /\ DOMAIN out.px = DOMAIN mask_smooth.px
        /\ \A p \in DOMAIN out.px :
              /\ out.px[p][4] = 255
              /\ BlendOk(out.px[p], s_img.px[p], getrgb(args.bg), mask_smooth.px[p])

C8_Witness ==
    /\ args.bg = "#ffffff" /\ pc = "save"
    /\ \E p \in DOMAIN out.px :
          /\ mask_smooth.px[p] \notin {0, 255}
          /\ SubSeq(out.px[p], 1, 3) \notin {s_img.px[p], <<255, 255, 255>>}

\* C9: with a tolerance of 442 or more every pixel is background and the mask
\* is 0 everywhere
C9_ToleranceSaturation ==
    (mask.mode = "L" /\ args.tolerance >= 442) =>
        \A p \in DOMAIN img.px :
            is_background_pixel(img.px[p], args.tolerance) /\ mask.px[p] = 0

C9_Witness ==
    /\ mask.mode = "L" /\ args.tolerance = 442
    /\ \E p \in DOMAIN img.px : Dist2(img.px[p]) = 3 * 255 * 255 /\ mask.px[p] = 0

\* C10: at every stage the mask has the size of the image it goes with: after
\* make_mask, inside smooth_alpha after the upscale, the blur and the
\* downscale, and when it is attached as the opacity channel
C10_Alignment ==
    /\ mask.mode = "L" => Size(mask) = Size(img)
    /\ s_mask.mode = "L" =>
          Size(s_mask) = Size(s_img) /\ DOMAIN s_mask.px = DOMAIN s_img.px
    /\ Smoothed =>
          Size(mask_smooth) = Size(img_smooth) /\ DOMAIN mask_smooth.px = DOMAIN img_smooth.px
    /\ ~(pc = "failed" /\ raised = "ValueError" /\ out = NoImage /\ img_smooth.mode = "RGB")

C10_Witness ==
    /\ pc = "composite" /\ args.upscale > 1 /\ args.blur > 0
    /\ img_smooth.mode = "RGBA" /\ mask_smooth.w > 1

====
